---- MODULE Spec2Model ----
(***************************************************************************)
(* Model of the detection session of the DIU ID card detector front end:   *)
(* the App component (state, health probe, handleFileSelect,               *)
(* handleWebcamCapture, toggleAutoCapture, switchMode), the ImageUploader  *)
(* Detect button and the WebcamCapture capture callback and auto-capture   *)
(* effect.                                                                  *)
(*                                                                          *)
(* React commits a handler's state updates, the re-render and the effects  *)
(* that depend on the changed state before the next event is handled; an   *)
(* action of the model is one handler together with that commit.           *)
(* Time is counted in units of 500 ms for the auto-capture interval.       *)
(***************************************************************************)
EXTENDS Integers, FiniteSets, Sequences, TLC

\* ---------------------------------------------------------------- bounds
MaxCaptures == 2
MaxHealthInflight == 2

\* ------------------------------------------------------------- constants
\* setInterval(..., 1000) of the auto-capture effect, in units of 500 ms
Interval == 2

Null == "<null>"

\* imageSrc is null, or the image of capture number n >= 1
NoImage == 0

Modes == {"upload", "webcam"}

ModelNotLoadedMsg == "Model not loaded on server. Please check the backend."
CannotConnectMsg == "Cannot connect to API server. Please ensure the backend is running."
DetectionFailedMsg == "Detection failed"
FailedToRunMsg == "Failed to run detection"

\* message field of a success=false response ("" stands for absent or empty)
Messages == {"", "Network Error", "Invalid image data"}

\* what the detection call throws: an Error with a message, or something else
Thrown == { [isError |-> TRUE, message |-> "Network Error"],
            [isError |-> TRUE, message |-> "timeout of 30000ms exceeded"],
            [isError |-> FALSE, message |-> ""] }

\* the successful payloads the detector returns in this model
ResultIds == {1, 2, 3}

ResultOf(k) ==
  CASE k = 1 -> [detections |-> <<"admin">>, inference_time_ms |-> 12,
                 image_width |-> 640, image_height |-> 480]
    [] k = 2 -> [detections |-> <<"student", "teacher">>, inference_time_ms |-> 20,
                 image_width |-> 1280, image_height |-> 720]
    [] OTHER -> [detections |-> <<>>, inference_time_ms |-> 5,
                 image_width |-> 640, image_height |-> 480]

Responses ==
  [type : {"ok"}, k : ResultIds, message : {""}, err : {[isError |-> FALSE, message |-> ""]}]
    \cup [type : {"fail"}, k : {0}, message : Messages, err : {[isError |-> FALSE, message |-> ""]}]
    \cup [type : {"throw"}, k : {0}, message : {""}, err : Thrown]

HealthOutcomes == {"loaded", "notLoaded", "throw"}

VARIABLES
  mounted,        \* the App component is mounted
  mode, isModelLoaded, isLoading, error, isAutoCapture,
  imageSrc, detections, inferenceTime, imageWidth, imageHeight,
  selectedFile,   \* ImageUploader: a file is selected
  hasPermission,  \* WebcamCapture: "null", "true" or "false"
  autoTimer,      \* auto-capture interval: 0 = not armed, else time to the next tick
  healthTimer,    \* the 30 s health interval is armed
  healthInflight, \* number of outstanding checkHealth calls
  inflight,       \* outstanding detection calls
  readers,        \* captures whose FileReader preview has not loaded yet
  accepted,       \* number of accepted captures (handler invocations)
  sent,           \* number of detection calls sent
  errorKind,      \* which writer recorded the current error
  lastEvent,      \* the handler that ran last
  resultFrom,     \* the capture whose response stored the detections (0: none)
  canvas,         \* DetectionCanvas: its props, the loaded image and what it drew
  agg,            \* AnalyticsDashboard: the data a render derives its figures from
  dash            \* AnalyticsDashboard: period, fetched data and outstanding fetches

vars == <<mounted, mode, isModelLoaded, isLoading, error, isAutoCapture,
          imageSrc, detections, inferenceTime, imageWidth, imageHeight,
          selectedFile, hasPermission, autoTimer, healthTimer, healthInflight,
          inflight, readers, accepted, sent, errorKind, lastEvent, resultFrom,
          canvas, agg, dash>>

\* the state of the detection session (App, ImageUploader, WebcamCapture)
sessionVars == <<mounted, mode, isModelLoaded, isLoading, error, isAutoCapture,
                 imageSrc, detections, inferenceTime, imageWidth, imageHeight,
                 selectedFile, hasPermission, autoTimer, healthTimer, healthInflight,
                 inflight, readers, accepted, sent, errorKind, lastEvent,
                 resultFrom>>

\* a component that is not part of the specification at hand
Idle == [on |-> FALSE]

resultVars == <<imageSrc, detections, inferenceTime, imageWidth, imageHeight>>

\* lastEvent: the handler, the origin and staleness of the capture it served,
\* and for a detection response its message and payload
Event(op, origin, stale) ==
  [op |-> op, origin |-> origin, stale |-> stale, message |-> "", k |-> 0]

\* ------------------------------------------------------ WebcamCapture effect
AutoArmCondIgnoringLoading(webcamMounted, auto, loading, perm) ==
  webcamMounted /\ auto /\ perm = "true"

AutoArmCondIgnoringToggle(webcamMounted, auto, loading, perm) ==
  webcamMounted /\ ~loading /\ perm = "true"

\* condition of the auto-capture effect
AutoArmCond(webcamMounted, auto, loading, perm) ==
  webcamMounted /\ auto /\ ~loading /\ perm = "true"

AutoCaptureEffectEager(timer, oldDeps, newDeps) ==
  IF newDeps = oldDeps THEN timer
  ELSE IF newDeps[1] /\ newDeps[2] /\ ~newDeps[3] /\ newDeps[4] = "true" THEN 1
  ELSE 0

\* the effect re-runs when one of its dependencies changed: the old interval
\* is cleared and a new one is set when the condition holds
AutoCaptureEffect(timer, oldDeps, newDeps) ==
  IF newDeps = oldDeps THEN timer
  ELSE IF AutoArmCond(newDeps[1], newDeps[2], newDeps[3], newDeps[4]) THEN Interval
  ELSE 0

Deps(md, auto, loading, perm) == <<md = "webcam", auto, loading, perm>>

CurDeps == Deps(mode, isAutoCapture, isLoading, hasPermission)

\* ------------------------------------------------------------ button guards
CaptureAlwaysEnabled == TRUE

\* Capture button: disabled={isLoading}
CaptureEnabled == ~isLoading

\* Detect button: disabled={isLoading}
DetectEnabled == ~isLoading

\* --------------------------------------------------------------------- Init
SessionInit ==
  /\ mounted = TRUE
  /\ mode = "upload"
  /\ isModelLoaded = FALSE
  /\ isLoading = FALSE
  /\ error = Null
  /\ isAutoCapture = FALSE
  /\ imageSrc = NoImage
  /\ detections = <<>>
  /\ inferenceTime = 0
  /\ imageWidth = 0
  /\ imageHeight = 0
  /\ selectedFile = FALSE
  /\ hasPermission = "null"
  /\ autoTimer = 0
  /\ healthTimer = TRUE
  /\ healthInflight = 1
  /\ inflight = {}
  /\ readers = {}
  /\ accepted = 0
  /\ sent = 0
  /\ errorKind = "none"
  /\ lastEvent = Event("mount", "", FALSE)
  /\ resultFrom = 0

Init ==
  /\ SessionInit
  /\ canvas = Idle
  /\ agg = Idle
  /\ dash = Idle

\* ------------------------------------------------------------ health probe
ProbesAfterTickNone(n) == n

\* checkApiHealth called by the interval: one more checkHealth call
ProbesAfterTick(n) == n + 1

\* a tick of setInterval(checkApiHealth, 30000)
HealthTick ==
  /\ UNCHANGED <<canvas, agg, dash, resultFrom>>
  /\ healthTimer
  /\ healthInflight < MaxHealthInflight
  /\ healthInflight' = ProbesAfterTick(healthInflight)
  /\ lastEvent' = Event("healthTick", "", FALSE)
  /\ UNCHANGED <<mounted, mode, isModelLoaded, isLoading, error, isAutoCapture,
                 imageSrc, detections, inferenceTime, imageWidth, imageHeight,
                 selectedFile, hasPermission, autoTimer, healthTimer,
                 inflight, readers, accepted, sent, errorKind>>

HealthError(outcome, old) ==
  CASE outcome = "loaded" -> Null
    [] outcome = "notLoaded" -> ModelNotLoadedMsg
    [] OTHER -> CannotConnectMsg

ReadyKeptOnThrow(outcome, old) ==
  IF outcome = "throw" THEN old ELSE outcome = "loaded"

\* setIsModelLoaded(health.model_loaded), and setIsModelLoaded(false) in catch
ReadyAfterProbe(outcome, old) == outcome = "loaded"

DetectionsClearedByProbe(old) == <<>>

\* checkApiHealth has no setDetections
DetectionsAfterProbe(old) == old

\* checkApiHealth after its await: the probe completed or threw
HealthDone(outcome) ==
  /\ UNCHANGED <<canvas, agg, dash, resultFrom>>
  /\ healthInflight > 0
  /\ healthInflight' = healthInflight - 1
  /\ IF mounted
       THEN /\ isModelLoaded' = ReadyAfterProbe(outcome, isModelLoaded)
            /\ error' = HealthError(outcome, error)
            /\ errorKind' = IF outcome = "loaded" THEN "none" ELSE "health"
            /\ detections' = DetectionsAfterProbe(detections)
       ELSE UNCHANGED <<isModelLoaded, error, errorKind, detections>>
  /\ lastEvent' = Event("healthDone", outcome, FALSE)
  /\ UNCHANGED <<mounted, mode, isLoading, isAutoCapture,
                 imageSrc, inferenceTime, imageWidth, imageHeight,
                 selectedFile, hasPermission, autoTimer, healthTimer,
                 inflight, readers, accepted, sent>>

\* the error alert's close button
DismissError ==
  /\ UNCHANGED <<canvas, agg, dash, resultFrom>>
  /\ mounted
  /\ error # Null
  /\ error' = Null
  /\ errorKind' = "none"
  /\ lastEvent' = Event("dismiss", "", FALSE)
  /\ UNCHANGED <<mounted, mode, isModelLoaded, isLoading, isAutoCapture,
                 imageSrc, detections, inferenceTime, imageWidth, imageHeight,
                 selectedFile, hasPermission, autoTimer, healthTimer, healthInflight,
                 inflight, readers, accepted, sent>>

\* ------------------------------------------------------- accepting a capture
DetectCallsWithRetry(n) == n + 2

\* the outbound call of one handler run: detectFromFile / detectFromBase64
DetectCalls(n) == n + 1

NewRequest(kind, origin) ==
  [id |-> accepted + 1, kind |-> kind, origin |-> origin, stale |-> FALSE]

\* handleFileSelect up to its await
HandleFileSelectStart ==
  /\ isLoading' = TRUE
  /\ error' = Null
  /\ errorKind' = "none"
  /\ readers' = readers \cup {accepted + 1}
  /\ inflight' = inflight \cup {NewRequest("file", "upload")}
  /\ accepted' = accepted + 1
  /\ sent' = DetectCalls(sent)
  /\ UNCHANGED <<imageSrc>>

\* handleWebcamCapture up to its await
HandleWebcamCaptureStart(origin) ==
  /\ isLoading' = TRUE
  /\ error' = Null
  /\ errorKind' = "none"
  /\ imageSrc' = accepted + 1
  /\ inflight' = inflight \cup {NewRequest("base64", origin)}
  /\ accepted' = accepted + 1
  /\ sent' = DetectCalls(sent)
  /\ UNCHANGED <<readers>>

\* ------------------------------------------------------------ ImageUploader
\* handleFile: a non-image file is rejected with an alert
SelectFile(isImage) ==
  /\ UNCHANGED <<canvas, agg, dash, resultFrom>>
  /\ mounted
  /\ mode = "upload"
  /\ selectedFile' = (IF isImage THEN TRUE ELSE selectedFile)
  /\ lastEvent' = Event("selectFile", "", FALSE)
  /\ UNCHANGED <<mounted, mode, isModelLoaded, isLoading, error, isAutoCapture,
                 imageSrc, detections, inferenceTime, imageWidth, imageHeight,
                 hasPermission, autoTimer, healthTimer, healthInflight,
                 inflight, readers, accepted, sent, errorKind>>

\* clearSelection: the close button is disabled while loading
ClearSelection ==
  /\ UNCHANGED <<canvas, agg, dash, resultFrom>>
  /\ mounted
  /\ mode = "upload"
  /\ selectedFile
  /\ ~isLoading
  /\ selectedFile' = FALSE
  /\ lastEvent' = Event("clearSelection", "", FALSE)
  /\ UNCHANGED <<mounted, mode, isModelLoaded, isLoading, error, isAutoCapture,
                 imageSrc, detections, inferenceTime, imageWidth, imageHeight,
                 hasPermission, autoTimer, healthTimer, healthInflight,
                 inflight, readers, accepted, sent, errorKind>>

\* handleDetect -> onImageSelect = handleFileSelect
Detect ==
  /\ UNCHANGED <<canvas, agg, dash, resultFrom>>
  /\ mounted
  /\ mode = "upload"
  /\ DetectEnabled
  /\ selectedFile
  /\ accepted < MaxCaptures
  /\ HandleFileSelectStart
  /\ lastEvent' = Event("accept", "upload", FALSE)
  /\ UNCHANGED <<mounted, mode, isModelLoaded, isAutoCapture,
                 detections, inferenceTime, imageWidth, imageHeight,
                 selectedFile, hasPermission, autoTimer, healthTimer, healthInflight>>

\* reader.onload of handleFileSelect: the preview of capture id is ready
ReaderLoad(id) ==
  /\ UNCHANGED <<canvas, agg, dash, resultFrom>>
  /\ id \in readers
  /\ readers' = readers \ {id}
  /\ imageSrc' = (IF mounted THEN id ELSE imageSrc)
  /\ lastEvent' = Event("readerLoad", "", FALSE)
  /\ UNCHANGED <<mounted, mode, isModelLoaded, isLoading, error, isAutoCapture,
                 detections, inferenceTime, imageWidth, imageHeight,
                 selectedFile, hasPermission, autoTimer, healthTimer, healthInflight,
                 inflight, accepted, sent, errorKind>>

\* ------------------------------------------------------------ WebcamCapture
\* the Webcam element (webcamRef.current) exists once permission is granted
WebcamRef == mounted /\ mode = "webcam" /\ hasPermission = "true"

\* getUserMedia resolved or rejected
PermissionResult(granted) ==
  /\ UNCHANGED <<canvas, agg, dash, resultFrom>>
  /\ mounted
  /\ mode = "webcam"
  /\ hasPermission = "null"
  /\ hasPermission' = (IF granted THEN "true" ELSE "false")
  /\ autoTimer' = AutoCaptureEffect(autoTimer, CurDeps,
                      Deps(mode, isAutoCapture, isLoading, hasPermission'))
  /\ lastEvent' = Event("permission", "", FALSE)
  /\ UNCHANGED <<mounted, mode, isModelLoaded, isLoading, error, isAutoCapture,
                 imageSrc, detections, inferenceTime, imageWidth, imageHeight,
                 selectedFile, healthTimer, healthInflight,
                 inflight, readers, accepted, sent, errorKind>>

FrameAssumed(ref, gotFrame) == ref

\* const imageSrc = webcamRef.current?.getScreenshot(); if (imageSrc) ...
FrameObtained(ref, gotFrame) == ref /\ gotFrame

\* the frame a capture attempt obtained, as recorded in lastEvent.message
FrameTag(gotFrame) == IF gotFrame THEN "frame" ELSE ""

\* capture(): timerAfter is the interval's state when the callback returns
Capture(origin, gotFrame, timerAfter) ==
  IF FrameObtained(WebcamRef, gotFrame)
    THEN /\ accepted < MaxCaptures
         /\ HandleWebcamCaptureStart(origin)
         /\ autoTimer' = AutoCaptureEffect(timerAfter, CurDeps,
                             Deps(mode, isAutoCapture, isLoading', hasPermission))
         /\ lastEvent' = [Event("accept", origin, FALSE) EXCEPT
                             !.message = FrameTag(WebcamRef /\ gotFrame)]
    ELSE /\ autoTimer' = timerAfter
         /\ lastEvent' = Event("noFrame", origin, FALSE)
         /\ UNCHANGED <<isLoading, error, errorKind, imageSrc, inflight,
                        accepted, sent, readers>>

\* a click on the Capture button
ManualCapture(gotFrame) ==
  /\ UNCHANGED <<canvas, agg, dash, resultFrom>>
  /\ WebcamRef
  /\ CaptureEnabled
  /\ Capture("manual", gotFrame, autoTimer)
  /\ UNCHANGED <<mounted, mode, isModelLoaded, isAutoCapture,
                 detections, inferenceTime, imageWidth, imageHeight,
                 selectedFile, hasPermission, healthTimer, healthInflight>>

\* a tick of the auto-capture interval; setInterval then counts anew
AutoTick(gotFrame) ==
  /\ UNCHANGED <<canvas, agg, dash, resultFrom>>
  /\ autoTimer = 1
  /\ Capture("auto", gotFrame, Interval)
  /\ UNCHANGED <<mounted, mode, isModelLoaded, isAutoCapture,
                 detections, inferenceTime, imageWidth, imageHeight,
                 selectedFile, hasPermission, healthTimer, healthInflight>>

\* 500 ms pass without a tick
Advance ==
  /\ UNCHANGED <<canvas, agg, dash, resultFrom>>
  /\ autoTimer > 1
  /\ autoTimer' = autoTimer - 1
  /\ lastEvent' = Event("advance", "", FALSE)
  /\ UNCHANGED <<mounted, mode, isModelLoaded, isLoading, error, isAutoCapture,
                 imageSrc, detections, inferenceTime, imageWidth, imageHeight,
                 selectedFile, hasPermission, healthTimer, healthInflight,
                 inflight, readers, accepted, sent, errorKind>>

\* toggleAutoCapture, from the auto-capture button of WebcamCapture
ToggleAutoCapture ==
  /\ UNCHANGED <<canvas, agg, dash, resultFrom>>
  /\ WebcamRef
  /\ isAutoCapture' = ~isAutoCapture
  /\ autoTimer' = AutoCaptureEffect(autoTimer, CurDeps,
                      Deps(mode, isAutoCapture', isLoading, hasPermission))
  /\ lastEvent' = Event("toggleAuto", "", FALSE)
  /\ UNCHANGED <<mounted, mode, isModelLoaded, isLoading, error,
                 imageSrc, detections, inferenceTime, imageWidth, imageHeight,
                 selectedFile, hasPermission, healthTimer, healthInflight,
                 inflight, readers, accepted, sent, errorKind>>

\* ------------------------------------------------------------------ App
LoadingClearedOnSwitch(old) == FALSE

\* switchMode has no setIsLoading
LoadingAfterSwitch(old) == old

\* switchMode; the component of the other mode is unmounted and the one of
\* newMode mounted with fresh local state
SwitchMode(newMode) ==
  /\ UNCHANGED <<canvas, agg, dash>>
  /\ mounted
  /\ mode' = newMode
  /\ imageSrc' = NoImage
  /\ detections' = <<>>
  /\ resultFrom' = 0
  /\ error' = Null
  /\ errorKind' = "none"
  /\ isAutoCapture' = FALSE
  /\ hasPermission' = (IF newMode = mode THEN hasPermission ELSE "null")
  /\ selectedFile' = (IF newMode = mode THEN selectedFile ELSE FALSE)
  /\ isLoading' = LoadingAfterSwitch(isLoading)
  /\ autoTimer' = AutoCaptureEffect(autoTimer, CurDeps,
                      Deps(newMode, isAutoCapture', isLoading', hasPermission'))
  /\ inflight' = {[r EXCEPT !.stale = TRUE] : r \in inflight}
  /\ lastEvent' = Event("switchMode", newMode, FALSE)
  /\ UNCHANGED <<mounted, isModelLoaded, inferenceTime, imageWidth,
                 imageHeight, healthTimer, healthInflight, readers, accepted, sent>>

\* result.message || 'Detection failed'
InferenceError(message) == IF message # "" THEN message ELSE DetectionFailedMsg

\* err instanceof Error ? err.message : 'Failed to run detection'
TransportError(err) == IF err.isError THEN err.message ELSE FailedToRunMsg

\* the error state after the try/catch of a detection handler
ErrorAfterResponse(resp, old) ==
  CASE resp.type = "ok" -> old
    [] resp.type = "fail" -> InferenceError(resp.message)
    [] OTHER -> TransportError(resp.err)

ErrorKindAfterResponse(resp, old) ==
  CASE resp.type = "ok" -> old
    [] resp.type = "fail" -> "inference"
    [] OTHER -> "transport"

ResultClearedOnFailure(resp, old) ==
  IF resp.type = "ok" THEN ResultOf(resp.k) ELSE [old EXCEPT !.detections = <<>>]

\* the stored result after the try block of a detection handler
ResultAfterResponse(resp, old) ==
  IF resp.type = "ok" THEN ResultOf(resp.k) ELSE old

\* useState<Detection[]>([]), useState(0) x 3
InitialResult ==
  [detections |-> <<>>, inference_time_ms |-> 0, image_width |-> 0, image_height |-> 0]

StoredResult ==
  [detections |-> detections, inference_time_ms |-> inferenceTime,
   image_width |-> imageWidth, image_height |-> imageHeight]

LoadingKeptOnThrow(resp) == resp.type = "throw"

LoadingKeptOnFail(resp) == resp.type = "fail"

\* finally { setIsLoading(false) }
LoadingAfterResponse(resp) == FALSE

\* the detection call of request r completed with resp: the rest of
\* handleFileSelect / handleWebcamCapture after the await
Response(r, resp) ==
  /\ UNCHANGED <<canvas, agg, dash>>
  /\ r \in inflight
  /\ inflight' = inflight \ {r}
  /\ IF mounted
       THEN /\ detections' = ResultAfterResponse(resp, StoredResult).detections
            /\ inferenceTime' = ResultAfterResponse(resp, StoredResult).inference_time_ms
            /\ imageWidth' = ResultAfterResponse(resp, StoredResult).image_width
            /\ imageHeight' = ResultAfterResponse(resp, StoredResult).image_height
            /\ resultFrom' = (IF resp.type = "ok" THEN r.id ELSE resultFrom)
            /\ error' = ErrorAfterResponse(resp, error)
            /\ errorKind' = ErrorKindAfterResponse(resp, errorKind)
            /\ isLoading' = LoadingAfterResponse(resp)
            /\ autoTimer' = AutoCaptureEffect(autoTimer, CurDeps,
                                Deps(mode, isAutoCapture, isLoading', hasPermission))
       ELSE UNCHANGED <<detections, inferenceTime, imageWidth, imageHeight, resultFrom,
                        error, errorKind, isLoading, autoTimer>>
  /\ lastEvent' = [Event(resp.type, r.origin, r.stale) EXCEPT
                      !.message = resp.message, !.k = resp.k]
  /\ UNCHANGED <<mounted, mode, isModelLoaded, isAutoCapture, imageSrc,
                 selectedFile, hasPermission, healthTimer, healthInflight,
                 readers, accepted, sent>>

TimersHealthLeaked == [auto |-> 0, health |-> TRUE]

\* the cleanups of the two interval effects
TimersAfterUnmount == [auto |-> 0, health |-> FALSE]

\* teardown: App and its children are unmounted
Unmount ==
  /\ UNCHANGED <<canvas, agg, dash, resultFrom>>
  /\ mounted
  /\ mounted' = FALSE
  /\ autoTimer' = TimersAfterUnmount.auto
  /\ healthTimer' = TimersAfterUnmount.health
  /\ lastEvent' = Event("unmount", "", FALSE)
  /\ UNCHANGED <<mode, isModelLoaded, isLoading, error, isAutoCapture,
                 imageSrc, detections, inferenceTime, imageWidth, imageHeight,
                 selectedFile, hasPermission, healthInflight,
                 inflight, readers, accepted, sent, errorKind>>

Next ==
  \/ HealthTick
  \/ \E outcome \in HealthOutcomes : HealthDone(outcome)
  \/ DismissError
  \/ \E isImage \in BOOLEAN : SelectFile(isImage)
  \/ ClearSelection
  \/ Detect
  \/ \E id \in readers : ReaderLoad(id)
  \/ \E granted \in BOOLEAN : PermissionResult(granted)
  \/ \E gotFrame \in BOOLEAN : ManualCapture(gotFrame)
  \/ \E gotFrame \in BOOLEAN : AutoTick(gotFrame)
  \/ Advance
  \/ ToggleAutoCapture
  \/ \E newMode \in Modes : SwitchMode(newMode)
  \/ \E r \in inflight, resp \in Responses : Response(r, resp)
  \/ Unmount

Spec == Init /\ [][Next]_vars

\* the health interval keeps firing while it is armed, and every checkHealth
\* call settles (axios timeout 30000)
HealthFairness ==
  /\ WF_vars(HealthTick)
  /\ WF_vars(\E outcome \in HealthOutcomes : HealthDone(outcome))

\* the session driven by the Capture button only: the health probe, the mode
\* switch, the camera permission, manual captures and their completions
NextLive ==
  \/ HealthTick
  \/ \E outcome \in HealthOutcomes : HealthDone(outcome)
  \/ \E granted \in BOOLEAN : PermissionResult(granted)
  \/ \E gotFrame \in BOOLEAN : ManualCapture(gotFrame)
  \/ \E newMode \in Modes : SwitchMode(newMode)
  \/ \E r \in inflight, resp \in Responses : Response(r, resp)
  \/ Unmount

SpecLive == Init /\ [][NextLive]_vars /\ HealthFairness

TypeOK ==
  /\ mounted \in BOOLEAN
  /\ mode \in Modes
  /\ isLoading \in BOOLEAN
  /\ isAutoCapture \in BOOLEAN
  /\ imageSrc \in 0..MaxCaptures
  /\ autoTimer \in 0..Interval
  /\ healthInflight \in 0..MaxHealthInflight
  /\ accepted \in 0..MaxCaptures
  /\ resultFrom \in 0..MaxCaptures

\* ===================================================================
\* Numbers: JavaScript numbers as exact fractions <<n, d>> in lowest terms
\* with d >= 0; d = 0 stands for Infinity (n > 0), -Infinity (n < 0) and
\* NaN (n = 0), as division by zero produces them
\* ===================================================================
Abs(n) == IF n < 0 THEN -n ELSE n

Sign(n) == IF n > 0 THEN 1 ELSE IF n < 0 THEN -1 ELSE 0

RECURSIVE GCD(_, _)
GCD(a, b) == IF b = 0 THEN a ELSE GCD(b, a % b)

Norm(n, d) ==
  IF d = 0 THEN <<Sign(n), 0>>
  ELSE LET g == GCD(Abs(n), d) IN <<n \div g, d \div g>>

Num(n) == <<n, 1>>

RMul(a, b) == Norm(a[1] * b[1], a[2] * b[2])

RDiv(a, b) ==
  LET n == a[1] * b[2]
      d == a[2] * b[1]
  IN IF d < 0 THEN Norm(-n, -d) ELSE Norm(n, d)

RSub(a, b) == Norm(a[1] * b[2] - b[1] * a[2], a[2] * b[2])

RAdd(a, b) == Norm(a[1] * b[2] + b[1] * a[2], a[2] * b[2])

IsFinite(a) == a[2] # 0

IsNaN(a) == a[2] = 0 /\ a[1] = 0

\* a === b
REq(a, b) == ~IsNaN(a) /\ ~IsNaN(b) /\ a = b

\* a <= b
RLe(a, b) ==
  /\ ~IsNaN(a) /\ ~IsNaN(b)
  /\ IF a[2] = 0 /\ b[2] = 0 THEN a[1] <= b[1]
     ELSE IF a[2] = 0 THEN a[1] < 0
     ELSE IF b[2] = 0 THEN b[1] > 0
     ELSE a[1] * b[2] <= b[1] * a[2]

\* a < b
RLt(a, b) == RLe(a, b) /\ a # b

\* Math.min: NaN when an argument is NaN
RMin(S) ==
  IF \E x \in S : IsNaN(x) THEN <<0, 0>>
  ELSE CHOOSE m \in S : \A x \in S : RLe(m, x)

\* ===================================================================
\* DetectionCanvas
\* ===================================================================
\* bound of the scaling factors tried on the display size
MaxFactor == 3

\* natural size of the image that imageSrc loads
ImageSizes == {<<640, 480>>, <<480, 480>>}

\* the imageWidth and imageHeight props (0 is their initial state in App)
PropWidths == {0, 480, 640}
PropHeights == {0, 480}

\* container.clientWidth
ContainerWidths == {320, 400}

Box(x1, y1, x2, y2) == [x1 |-> x1, y1 |-> y1, x2 |-> x2, y2 |-> y2]

\* the detections prop: bounding boxes in source pixels
DetectionLists ==
  { <<Box(100, 50, 300, 250)>>,
    <<Box(0, 0, 64, 48)>>,
    <<Box(100, 50, 300, 250), Box(320, 240, 640, 480)>>,
    [i \in 1..7 |-> Box(40 * i, 30 * i, 40 * i + 120, 30 * i + 90)] }

\* the class_name of the detections: all of one class, or the classes in turn
ClassNames == <<"admin", "student", "teacher">>

ClassLists(n) ==
  { [i \in 1..n |-> "student"], [i \in 1..n |-> ClassNames[(i % 3) + 1]] }

\* the primary colors of COLORS
COLORS == <<"#8B5CF6", "#10B981", "#F59E0B", "#EF4444", "#3B82F6", "#EC4899">>

ColorIndexByClass(index, className) ==
  CASE className = "admin" -> 0
    [] className = "student" -> 1
    [] OTHER -> 2

\* index % COLORS.length, for the detection at index (from 0) in forEach
ColorIndex(index, className) == index % Len(COLORS)

CornerLengthFixed(width, height) == Num(25)

\* Math.min(25, width / 4, height / 4)
CornerLength(width, height) ==
  RMin({Num(25), RDiv(width, Num(4)), RDiv(height, Num(4))})

\* displayWidth < 400 ? 22 : 28
LabelHeight(displayWidth) == IF RLt(displayWidth, Num(400)) THEN 22 ELSE 28

\* the top edge of the label pill: y1 - labelHeight
LabelTop(y1, displayWidth) == RSub(y1, Num(LabelHeight(displayWidth)))

NoDrawing == [status |-> "none"]

SwappedScales(sx, sy) == [x |-> sy, y |-> sx]

\* which scale multiplies which coordinate (lines 143-146)
Scales(sx, sy) == [x |-> sx, y |-> sy]

MapBoxInset(bbox, scaleX, scaleY) ==
  LET sc == Scales(scaleX, scaleY)
  IN [x1 |-> RAdd(RMul(Num(bbox.x1), sc.x), Num(2)),
      y1 |-> RAdd(RMul(Num(bbox.y1), sc.y), Num(2)),
      x2 |-> RSub(RMul(Num(bbox.x2), sc.x), Num(2)),
      y2 |-> RSub(RMul(Num(bbox.y2), sc.y), Num(2))]

\* one detection's box on the canvas
MapBox(bbox, scaleX, scaleY) ==
  LET sc == Scales(scaleX, scaleY)
  IN [x1 |-> RMul(Num(bbox.x1), sc.x), y1 |-> RMul(Num(bbox.y1), sc.y),
      x2 |-> RMul(Num(bbox.x2), sc.x), y2 |-> RMul(Num(bbox.y2), sc.y)]

\* img.onload for a canvas of width displayWidth showing an image of the
\* given natural size
Draw(c, displayWidth) ==
  LET aspectRatio == RDiv(Num(c.imgW), Num(c.imgH))
      displayHeight == RDiv(displayWidth, aspectRatio)
      scaleX == RDiv(displayWidth, Num(c.imageWidth))
      scaleY == RDiv(displayHeight, Num(c.imageHeight))
  IN [status |-> "drawn", width |-> displayWidth, height |-> displayHeight,
      scaleX |-> scaleX, scaleY |-> scaleY,
      boxes |-> [i \in DOMAIN c.detections |->
                   MapBox(c.detections[i], scaleX, scaleY)],
      colors |-> [i \in DOMAIN c.detections |->
                    COLORS[ColorIndex(i - 1, c.classes[i]) + 1]],
      corners |-> [i \in DOMAIN c.detections |->
                     LET b == MapBox(c.detections[i], scaleX, scaleY)
                     IN CornerLength(RSub(b.x2, b.x1), RSub(b.y2, b.y1))],
      labelTops |-> [i \in DOMAIN c.detections |->
                       LabelTop(MapBox(c.detections[i], scaleX, scaleY).y1,
                                displayWidth)]]

\* the canvas is mounted with its props and the image is loading
InitCanvas ==
  /\ SessionInit
  /\ agg = Idle
  /\ dash = Idle
  /\ \E size \in ImageSizes, w \in PropWidths, h \in PropHeights,
        cw \in ContainerWidths, ds \in DetectionLists :
        \E cs \in ClassLists(Len(ds)) :
          canvas = [on |-> TRUE, imgW |-> size[1], imgH |-> size[2],
                    imageWidth |-> w, imageHeight |-> h,
                    containerWidth |-> cw, detections |-> ds, classes |-> cs,
                    out |-> NoDrawing]

\* img.onload
ImageLoaded ==
  /\ canvas.on
  /\ canvas.out.status = "none"
  /\ canvas' = [canvas EXCEPT !.out = Draw(canvas, Num(canvas.containerWidth))]
  /\ UNCHANGED <<sessionVars, agg, dash>>

NextCanvas == ImageLoaded

SpecCanvas == InitCanvas /\ [][NextCanvas]_vars

Drawn == canvas.on /\ canvas.out.status = "drawn"

\* -------------------------------------------- DetectionCanvas: re-renders
\* bound of the number of renders with changed inputs
MaxRenders == 3

\* the inputs the effect of one render closed over, and its new Image()
Closure(id, ds, cs) ==
  [id |-> id, imgW |-> 640, imgH |-> 480, imageWidth |-> 640, imageHeight |-> 480,
   detections |-> ds, classes |-> cs]

\* mounted with the first result; the effect has set img.src
InitRedraw ==
  /\ SessionInit
  /\ agg = Idle
  /\ dash = Idle
  /\ \E ds \in DetectionLists : \E cs \in ClassLists(Len(ds)) :
        canvas = [on |-> TRUE, imgW |-> 640, imgH |-> 480,
                  imageWidth |-> 640, imageHeight |-> 480,
                  containerWidth |-> 320, detections |-> ds, classes |-> cs,
                  out |-> NoDrawing,
                  renders |-> 1, shown |-> 0, loads |-> {Closure(1, ds, cs)}]

\* a render with changed imageSrc and detections: the effect runs again
\* and starts loading a new Image; the effect has no cleanup
PropsChanged(ds, cs) ==
  /\ canvas.on
  /\ canvas.renders < MaxRenders
  /\ canvas' = [canvas EXCEPT !.detections = ds, !.classes = cs,
                              !.renders = canvas.renders + 1,
                              !.loads = canvas.loads
                                          \cup {Closure(canvas.renders + 1, ds, cs)}]
  /\ UNCHANGED <<sessionVars, agg, dash>>

\* img.onload of the Image of one render: it draws that render's inputs
ImageLoadedFor(l) ==
  /\ canvas.on
  /\ l \in canvas.loads
  /\ canvas' = [canvas EXCEPT !.out = Draw(l, Num(canvas.containerWidth)),
                              !.shown = l.id,
                              !.loads = canvas.loads \ {l}]
  /\ UNCHANGED <<sessionVars, agg, dash>>

NextRedraw ==
  \/ \E ds \in DetectionLists : \E cs \in ClassLists(Len(ds)) : PropsChanged(ds, cs)
  \/ \E l \in canvas.loads : ImageLoadedFor(l)

SpecRedraw == InitRedraw /\ [][NextRedraw]_vars

\* ===================================================================
\* AnalyticsDashboard: the figures one render derives from the fetched data
\* ===================================================================
\* bound of a class count
MaxCount == 6

\* useState<...| null>(null) of stats, distribution and todayStats
NoData == [null |-> TRUE]

\* total_detections per day of a fetched daily breakdown, oldest first
DailyLists ==
  { <<>>, <<0, 0, 0>>, <<3, 1, 2>>, <<2, 4, 4, 1, 0, 3, 2>>,
    <<9, 1, 2, 3, 1, 0, 2, 1>>, <<1, 2, 5, 3, 1, 0, 2, 1, 4>> }

SetMax(S) == CHOOSE m \in S : \A x \in S : x <= m

Max3(a, b, c) == SetMax({a, b, c})

\* Math.round of a finite number
Round(x) == (2 * x[1] + x[2]) \div (2 * x[2])

\* Math.floor of a finite number
Floor(x) == x[1] \div x[2]

\* the percentage field the analytics service returns for a class
BackendPercentage(count, total) ==
  IF total > 0 THEN RDiv(Num(100 * count), Num(total)) ELSE Num(0)

\* the ClassDistribution the analytics service returns for the counts
BackendDistribution(a, b, c) ==
  [admin |-> [count |-> a, percentage |-> BackendPercentage(a, a + b + c)],
   student |-> [count |-> b, percentage |-> BackendPercentage(b, a + b + c)],
   teacher |-> [count |-> c, percentage |-> BackendPercentage(c, a + b + c)],
   total |-> a + b + c]

Counts(a, b, c) == [admin_count |-> a, student_count |-> b, teacher_count |-> c]

TopClassFloored(t) ==
  LET total == t.admin_count + t.student_count + t.teacher_count
  IN IF total > 0
       THEN Floor(RMul(RDiv(Num(Max3(t.admin_count, t.student_count, t.teacher_count)),
                            Num(total)), Num(100)))
       ELSE 0

TopClassOfAdmin(t) ==
  LET total == t.admin_count + t.student_count + t.teacher_count
  IN IF total > 0
       THEN Round(RMul(RDiv(Num(t.admin_count), Num(total)), Num(100)))
       ELSE 0

\* Top Class % of Today's Activity
TopClass(t) ==
  LET total == t.admin_count + t.student_count + t.teacher_count
  IN IF total > 0
       THEN Round(RMul(RDiv(Num(Max3(t.admin_count, t.student_count, t.teacher_count)),
                            Num(total)), Num(100)))
       ELSE 0

CardPercentageFromCount(dist, class) ==
  IF dist = NoData \/ dist[class].count = 0 THEN Num(0) ELSE Num(dist[class].count)

\* distribution?.<class>?.percentage || 0
CardPercentage(dist, class) ==
  IF dist = NoData THEN Num(0)
  ELSE IF IsNaN(dist[class].percentage) \/ dist[class].percentage = Num(0) THEN Num(0)
  ELSE dist[class].percentage

\* stats?.<class>_count || 0
CardCount(stats, field) == IF stats = NoData THEN 0 ELSE stats[field]

ClassCards(stats, dist) ==
  [admin |-> [count |-> CardCount(stats, "admin_count"),
              percentage |-> CardPercentage(dist, "admin")],
   student |-> [count |-> CardCount(stats, "student_count"),
                percentage |-> CardPercentage(dist, "student")],
   teacher |-> [count |-> CardCount(stats, "teacher_count"),
                percentage |-> CardPercentage(dist, "teacher")]]

\* Math.max(...(dailyData.length > 0 ? dailyData.map(d => d.total_detections) : [1]), 1)
MaxDaily(dailyData) ==
  SetMax((IF Len(dailyData) > 0 THEN {dailyData[i] : i \in DOMAIN dailyData} ELSE {1})
           \cup {1})

\* dailyData.slice(-7)
Slice7(dailyData) ==
  IF Len(dailyData) <= 7 THEN dailyData
  ELSE SubSeq(dailyData, Len(dailyData) - 6, Len(dailyData))

\* the height fractions of the bars of the daily chart
Bars(dailyData) ==
  LET shown == Slice7(dailyData)
  IN [i \in DOMAIN shown |-> RDiv(Num(shown[i]), Num(MaxDaily(dailyData)))]

ToFixed1Truncated(x) == Floor(RMul(x, Num(10)))

\* card.percentage.toFixed(1) of a finite number >= 0, in tenths
ToFixed1(x) == Round(RMul(x, Num(10)))

\* the percentage texts of the three class cards, in tenths
CardTexts(cards) ==
  [class \in {"admin", "student", "teacher"} |-> ToFixed1(cards[class].percentage)]

NoFigures == [status |-> "none"]

\* one render of the dashboard
Figures(g) ==
  [status |-> "rendered",
   topClass |-> IF g.todayStats = NoData THEN 0 ELSE TopClass(g.todayStats),
   cards |-> ClassCards(g.stats, g.distribution),
   cardTexts |-> CardTexts(ClassCards(g.stats, g.distribution)),
   bars |-> Bars(g.dailyData)]

\* the data of one completed fetch, or none before the first fetch completed
InitAgg ==
  /\ SessionInit
  /\ canvas = Idle
  /\ dash = Idle
  /\ \/ agg = [on |-> TRUE, todayStats |-> NoData, stats |-> NoData,
               distribution |-> NoData, dailyData |-> <<>>, out |-> NoFigures]
     \/ \E a \in 0..MaxCount, b \in 0..MaxCount, c \in 0..MaxCount,
           daily \in DailyLists :
           agg = [on |-> TRUE, todayStats |-> Counts(a, b, c),
                  stats |-> Counts(a, b, c),
                  distribution |-> BackendDistribution(a, b, c),
                  dailyData |-> daily, out |-> NoFigures]

RenderDashboard ==
  /\ agg.on
  /\ agg.out.status = "none"
  /\ agg' = [agg EXCEPT !.out = Figures(agg)]
  /\ UNCHANGED <<sessionVars, canvas, dash>>

NextAgg == RenderDashboard

SpecAgg == InitAgg /\ [][NextAgg]_vars

Rendered == agg.on /\ agg.out.status = "rendered"

\* ===================================================================
\* AnalyticsDashboard: period selection and data fetching
\* ===================================================================
\* bound of the number of fetchData calls
MaxFetches == 3

Periods == {"today", "week", "month", "year", "all"}

FetchFailedMsg == "Failed to fetch analytics data"

\* the four requests of Promise.all
RequestNames == {"stats", "daily", "distribution", "today"}

DailyPeriodWithoutAll(period) ==
  IF period = "today" THEN "week"
  ELSE IF period = "year" THEN "month"
  ELSE period

\* the period fetchData passes to getDailyBreakdown
DailyPeriod(period) ==
  IF period = "today" THEN "week"
  ELSE IF period = "year" \/ period = "all" THEN "month"
  ELSE period

\* the four requests of one fetchData call for the period of its render
Requests(id, period) ==
  [id |-> id, period |-> period,
   stats |-> period, daily |-> DailyPeriod(period), distribution |-> period,
   today |-> TRUE]

\* what a request answers: the data of its period, tagged with the fetch
Data(f, period) == [null |-> FALSE, period |-> period, fetch |-> f.id]

\* fetchData up to its await
FetchData(period) ==
  /\ dash.issued < MaxFetches
  /\ dash' = [dash EXCEPT !.loading = TRUE, !.error = Null,
                          !.period = period,
                          !.issued = dash.issued + 1,
                          !.fetches = dash.fetches
                                        \cup {Requests(dash.issued + 1, period)},
                          !.last = [op |-> "fetch", id |-> dash.issued + 1,
                                    failed |-> {}]]

\* mounted with period 'week'; the period effect has called fetchData
InitDash ==
  /\ SessionInit
  /\ canvas = Idle
  /\ agg = Idle
  /\ dash = [on |-> TRUE, period |-> "week",
             stats |-> NoData, dailyBreakdown |-> NoData,
             distribution |-> NoData, todayStats |-> NoData,
             loading |-> TRUE, error |-> Null,
             issued |-> 1, fetches |-> {Requests(1, "week")},
             last |-> [op |-> "fetch", id |-> 1, failed |-> {}]]

\* a period button: setPeriod, and the effect on [period] calls fetchData
SetPeriod(p) ==
  /\ dash.on
  /\ p # dash.period
  /\ FetchData(p)
  /\ UNCHANGED <<sessionVars, canvas, agg>>

\* the Refresh button, disabled while loading
Refresh ==
  /\ dash.on
  /\ ~dash.loading
  /\ FetchData(dash.period)
  /\ UNCHANGED <<sessionVars, canvas, agg>>

\* Promise.all of fetch f settled: fulfilled when none of its requests
\* failed, rejected otherwise
FetchDone(f, failed) ==
  /\ dash.on
  /\ f \in dash.fetches
  /\ dash' = IF failed = {}
               THEN [dash EXCEPT !.stats = Data(f, f.stats),
                                 !.dailyBreakdown = Data(f, f.daily),
                                 !.distribution = Data(f, f.distribution),
                                 !.todayStats = Data(f, "today"),
                                 !.loading = FALSE,
                                 !.fetches = dash.fetches \ {f},
                                 !.last = [op |-> "done", id |-> f.id,
                                           failed |-> failed]]
               ELSE [dash EXCEPT !.error = FetchFailedMsg,
                                 !.loading = FALSE,
                                 !.fetches = dash.fetches \ {f},
                                 !.last = [op |-> "done", id |-> f.id,
                                           failed |-> failed]]
  /\ UNCHANGED <<sessionVars, canvas, agg>>

NextDash ==
  \/ \E p \in Periods : SetPeriod(p)
  \/ Refresh
  \/ \E f \in dash.fetches, failed \in SUBSET RequestNames : FetchDone(f, failed)

SpecDash == InitDash /\ [][NextDash]_vars

\* ===================================================================
\* Properties
\* ===================================================================
IsResponse(e) == e.op \in {"ok", "fail", "throw"}

\* C1: at most one detection request is in flight at any time; a second
\* trigger before the completion of the first is not accepted.
C1_AtMostOneInFlight == Cardinality(inflight) <= 1

\* a second capture is in flight, alone, after the first one completed
C1_Witness ==
  /\ lastEvent.op = "accept" /\ lastEvent.origin = "manual"
  /\ accepted = 2 /\ Cardinality(inflight) = 1 /\ isLoading

\* C2: a response that completes after a mode switch changes none of
\* detections, inference time, image width, image height, image source, error.
C2_StaleResponseDiscarded ==
  [][(mounted /\ IsResponse(lastEvent') /\ lastEvent'.stale)
       => UNCHANGED <<detections, inferenceTime, imageWidth, imageHeight,
                      imageSrc, error>>]_vars

\* C3: while the App is mounted isLoading is true exactly while a detection
\* request is outstanding: set on acceptance, cleared by the completion on
\* every outcome.
C3_LoadingIffOutstanding == mounted => (isLoading <=> inflight # {})

\* a transport failure has cleared the flag
C3_Witness ==
  mounted /\ lastEvent.op = "throw" /\ ~isLoading /\ inflight = {}

\* C4: a timer-initiated capture is accepted only while nothing is in flight,
\* and a completion starts no capture and leaves no tick pending: the interval
\* is unarmed or a full interval away.
C4_NoQueuedTicks ==
  [][/\ (lastEvent'.op = "accept" /\ lastEvent'.origin = "auto") => inflight = {}
     /\ (mounted /\ inflight # {}) => autoTimer = 0
     /\ (mounted /\ IsResponse(lastEvent'))
          => /\ accepted' = accepted /\ sent' = sent
             /\ autoTimer' \in {0, Interval}]_vars

\* a second timer-initiated capture, accepted after the first completed
C4_Witness ==
  /\ lastEvent.op = "accept" /\ lastEvent.origin = "auto"
  /\ accepted >= 2 /\ Cardinality(inflight) = 1

\* C5: while auto-capture is disabled the interval is not armed, so no
\* timer-initiated capture can be accepted.
C5_TimerOffWhenDisabled == ~isAutoCapture => autoTimer = 0

\* auto-capture was switched off in a state where the interval was armed
C5_Witness ==
  /\ lastEvent.op = "toggleAuto" /\ ~isAutoCapture
  /\ mounted /\ mode = "webcam" /\ hasPermission = "true" /\ ~isLoading

\* C6 as stated: a mode change and a teardown both cancel the auto-capture
\* timer and the health-probe timer.
C6_BothTimersCancelled ==
  [][lastEvent'.op \in {"switchMode", "unmount"}
       => (autoTimer' = 0 /\ ~healthTimer')]_vars

\* C6 amended: a mode change cancels the auto-capture timer and leaves the
\* health-probe timer armed; teardown cancels both, and neither is armed
\* afterwards.
C6_TimersCancelled ==
  [][/\ lastEvent'.op = "switchMode"
          => (autoTimer' = 0 /\ healthTimer' = healthTimer)
     /\ lastEvent'.op = "unmount" => (autoTimer' = 0 /\ ~healthTimer')
     /\ ~mounted => (autoTimer' = 0 /\ ~healthTimer')]_vars

\* teardown in a state where both intervals were armed
C6_Witness ==
  /\ lastEvent.op = "unmount" /\ ~mounted
  /\ mode = "webcam" /\ isAutoCapture /\ hasPermission = "true" /\ ~isLoading
  /\ autoTimer = 0 /\ ~healthTimer

\* C7 as stated: a success=false response leaves image source, detections,
\* inference time and image dimensions unchanged and the error becomes the
\* response's message verbatim.
C7_FailureKeepsResultVerbatim ==
  [][(mounted /\ lastEvent'.op = "fail")
       => (UNCHANGED resultVars /\ error' = lastEvent'.message)]_vars

\* C7 amended: ... and the error becomes the response's message when that is
\* non-empty, and 'Detection failed' when the message is absent or empty.
C7_FailureKeepsResult ==
  [][(mounted /\ lastEvent'.op = "fail")
       => /\ UNCHANGED resultVars
          /\ error' = IF lastEvent'.message # "" THEN lastEvent'.message
                       ELSE DetectionFailedMsg]_vars

\* a failed detection with a displayed earlier result retained
C7_Witness ==
  /\ mounted /\ lastEvent.op = "fail" /\ error = "Invalid image data"
  /\ detections # <<>> /\ imageSrc # NoImage

\* C8: after a success=true response the stored result is that of the
\* response and the error is empty.
C8_SuccessStoresAndClearsError ==
  [][(mounted /\ lastEvent'.op = "ok")
       => (StoredResult' = ResultOf(lastEvent'.k) /\ error' = Null)]_vars

\* C9: an error recorded by a transport failure is never a value that an
\* inference-level failure records.
C9_TransportErrorDistinct ==
  (mounted /\ errorKind = "transport")
    => error \notin {InferenceError(m) : m \in Messages}

\* C10: the number of detection calls sent equals the number of accepted
\* captures; an upload goes out as detectFromFile, a webcam frame as
\* detectFromBase64.
C10_OneCallPerCapture ==
  /\ sent = accepted
  /\ \A r \in inflight : (r.kind = "file") <=> (r.origin = "upload")

\* two captures were accepted, the second one just now
C10_Witness ==
  lastEvent.op = "accept" /\ accepted >= 2 /\ sent >= 2

\* C11: a detection call is sent only by an accepted trigger (never by a
\* completion, so nothing is retried), and after every completion the
\* scheduler is idle: nothing in flight, both trigger buttons enabled.
C11_NoRetryThenIdle ==
  [][/\ sent' # sent
          => (lastEvent'.op = "accept"
              /\ lastEvent'.origin \in {"upload", "manual", "auto"})
     /\ (mounted /\ IsResponse(lastEvent'))
          => (sent' = sent /\ inflight' = {} /\ ~isLoading'
              /\ CaptureEnabled' /\ DetectEnabled')]_vars

\* a failed request has completed and the scheduler is idle again
C11_Witness ==
  /\ mounted /\ lastEvent.op \in {"fail", "throw"}
  /\ inflight = {} /\ ~isLoading /\ sent = accepted /\ sent >= 1

\* C12: the stored detections, inference time, image width and image height
\* are those of one successful response, or all in their initial state.
C12_ResultFromOneResponse ==
  mounted => (StoredResult = InitialResult
              \/ \E k \in ResultIds : StoredResult = ResultOf(k))

PositiveSource == canvas.imageWidth > 0 /\ canvas.imageHeight > 0

\* the box {x1*dstW/srcW, y1*dstH/srcH, x2*dstW/srcW, y2*dstH/srcH}
ExpectedBox(bbox, srcW, srcH, dstW, dstH) ==
  [x1 |-> RDiv(RMul(Num(bbox.x1), dstW), Num(srcW)),
   y1 |-> RDiv(RMul(Num(bbox.y1), dstH), Num(srcH)),
   x2 |-> RDiv(RMul(Num(bbox.x2), dstW), Num(srcW)),
   y2 |-> RDiv(RMul(Num(bbox.y2), dstH), Num(srcH))]

BoxEq(a, b) ==
  REq(a.x1, b.x1) /\ REq(a.y1, b.y1) /\ REq(a.x2, b.x2) /\ REq(a.y2, b.y2)

ExampleProps ==
  /\ canvas.imgW = 640 /\ canvas.imgH = 480
  /\ canvas.imageWidth = 640 /\ canvas.imageHeight = 480
  /\ canvas.containerWidth = 320
  /\ canvas.detections[1] = Box(100, 50, 300, 250)

\* C13: for positive source dimensions every drawn box is
\* {x1*dstW/srcW, y1*dstH/srcH, x2*dstW/srcW, y2*dstH/srcH} with dstW x dstH the
\* canvas size; a 640x480 image at width 320 gets height 240 and
\* {100,50,300,250} is drawn at {50,25,150,125}.
C13_BoxMapping ==
  (Drawn /\ PositiveSource)
    => /\ \A i \in DOMAIN canvas.detections :
            BoxEq(canvas.out.boxes[i],
                  ExpectedBox(canvas.detections[i], canvas.imageWidth,
                              canvas.imageHeight, canvas.out.width, canvas.out.height))
       /\ ExampleProps
            => /\ canvas.out.height = Num(240)
               /\ canvas.out.boxes[1] =
                    [x1 |-> Num(50), y1 |-> Num(25), x2 |-> Num(150), y2 |-> Num(125)]

\* the example has been drawn
C13_Witness ==
  Drawn /\ ExampleProps /\ canvas.out.boxes[1].x2 = Num(150)

\* C14: a render with imageWidth <= 0 or imageHeight <= 0 ends with an
\* InvalidGeometry error.
C14_DegenerateRejected ==
  (canvas.on /\ canvas.out.status # "none"
     /\ (canvas.imageWidth <= 0 \/ canvas.imageHeight <= 0))
    => canvas.out.status = "InvalidGeometry"

\* C15: the canvas height is dstW / (srcW/srcH) for the result's source
\* dimensions, and the two scale factors are equal.
C15_AspectFromResult ==
  (Drawn /\ PositiveSource)
    => /\ REq(canvas.out.height,
              RDiv(canvas.out.width,
                   RDiv(Num(canvas.imageWidth), Num(canvas.imageHeight))))
       /\ REq(canvas.out.scaleX, canvas.out.scaleY)

\* C16: for positive source dimensions, a display k times as wide (and so k
\* times as high) gives every mapped coordinate times k.
C16_LinearInDisplaySize ==
  (Drawn /\ PositiveSource)
    => \A k \in 1..MaxFactor :
         LET big == Draw(canvas, RMul(Num(k), Num(canvas.containerWidth)))
         IN /\ REq(big.width, RMul(Num(k), canvas.out.width))
            /\ REq(big.height, RMul(Num(k), canvas.out.height))
            /\ \A i \in DOMAIN canvas.detections :
                 BoxEq(big.boxes[i],
                       [x1 |-> RMul(Num(k), canvas.out.boxes[i].x1),
                        y1 |-> RMul(Num(k), canvas.out.boxes[i].y1),
                        x2 |-> RMul(Num(k), canvas.out.boxes[i].x2),
                        y2 |-> RMul(Num(k), canvas.out.boxes[i].y2)])

\* a drawing whose scale factors are not whole numbers and differ
C16_Witness ==
  /\ Drawn /\ PositiveSource
  /\ canvas.out.scaleX[2] > 1
  /\ canvas.out.scaleX # canvas.out.scaleY

TodayTotal ==
  agg.todayStats.admin_count + agg.todayStats.student_count
    + agg.todayStats.teacher_count

TodayMax ==
  Max3(agg.todayStats.admin_count, agg.todayStats.student_count,
       agg.todayStats.teacher_count)

ShownDays == Slice7(agg.dailyData)

\* C18: each displayed bar has the fraction total / max(1, M), M the maximum
\* over the displayed bars, so the tallest bar of a non-zero window is 1 and
\* every fraction lies in [0, 1].
C18_BarsScaledToShownWindow ==
  Rendered
    => \A i \in DOMAIN ShownDays :
         LET M == SetMax({ShownDays[j] : j \in DOMAIN ShownDays} \cup {1})
         IN /\ REq(agg.out.bars[i], RDiv(Num(ShownDays[i]), Num(M)))
            /\ RLe(Num(0), agg.out.bars[i]) /\ RLe(agg.out.bars[i], Num(1))

CardTotal ==
  agg.out.cards.admin.count + agg.out.cards.student.count
    + agg.out.cards.teacher.count

\* C20: the percentage of each class card is 100*count/total for total > 0
\* and 0 for total = 0 (total = the sum of the three card counts), always a
\* finite number.
C20_ClassPercentage ==
  Rendered
    => \A class \in {"admin", "student", "teacher"} :
         /\ IsFinite(agg.out.cards[class].percentage)
         /\ REq(agg.out.cards[class].percentage,
                IF CardTotal > 0
                  THEN RDiv(Num(100 * agg.out.cards[class].count), Num(CardTotal))
                  ELSE Num(0))

\* cards with a percentage that is not a whole number
C20_Witness ==
  /\ Rendered /\ CardTotal = 3
  /\ agg.out.cards.admin.count = 1
  /\ agg.out.cards.admin.percentage = <<100, 3>>

\* the daily-breakdown period the policy prescribes
RemappedPeriod(period) ==
  CASE period = "today" -> "week"
    [] period = "week" -> "week"
    [] period = "month" -> "month"
    [] period = "year" -> "month"
    [] period = "all" -> "month"

\* C19: every fetch requests the daily breakdown for the remapped period
\* (today -> week, year and all -> month, week and month unchanged) and the
\* stats and the class distribution for the selected period itself.
C19_PeriodRemapping ==
  dash.on
    => \A f \in dash.fetches :
         /\ f.daily = RemappedPeriod(f.period)
         /\ f.stats = f.period
         /\ f.distribution = f.period

\* fetches for 'all' and for 'today' are outstanding
C19_Witness ==
  /\ dash.on
  /\ \E f \in dash.fetches : f.period = "all" /\ f.daily = "month"
  /\ \E f \in dash.fetches : f.period = "today" /\ f.daily = "week"

\* C21: for counts with total > 0 the three class percentages, as bar widths
\* and as the texts with one decimal, each lie in [0, 100], and the widths
\* sum to 100 and the texts to within 0.1 of 100.
C21_PercentagesSumTo100 ==
  (Rendered /\ CardTotal > 0)
    => LET c == agg.out.cards
           t == agg.out.cardTexts
           textSum == t.admin + t.student + t.teacher
       IN /\ \A class \in {"admin", "student", "teacher"} :
               /\ RLe(Num(0), c[class].percentage)
               /\ RLe(c[class].percentage, Num(100))
               /\ t[class] \in 0..1000
          /\ REq(RAdd(RAdd(c.admin.percentage, c.student.percentage),
                      c.teacher.percentage), Num(100))
          /\ textSum \in 999..1001

\* counts {1, 1, 4}: the texts 16.7, 16.7 and 66.7 sum to 100.1
C21_Witness ==
  /\ Rendered /\ CardTotal = 6
  /\ agg.out.cards.admin.count = 1 /\ agg.out.cards.student.count = 1
  /\ agg.out.cardTexts = [admin |-> 167, student |-> 167, teacher |-> 667]

\* C22: the ready flag is written only by a completed health probe, which
\* sets it to the probe's model_loaded and to false when the probe failed;
\* one probe is started at mount, every other one by the interval, which is
\* armed exactly while the App is mounted.
C22_ReadyFollowsProbe ==
  [][/\ (mounted /\ lastEvent'.op = "healthDone")
          => /\ isModelLoaded' = (lastEvent'.origin = "loaded")
             /\ lastEvent'.origin = "throw" => ~isModelLoaded'
     /\ lastEvent'.op # "healthDone" => isModelLoaded' = isModelLoaded
     /\ healthInflight' > healthInflight
          => (lastEvent'.op = "healthTick" /\ healthTimer /\ mounted)
     /\ healthTimer' = mounted']_vars

\* a probe failed after an earlier one had reported the model loaded
C22_Witness ==
  /\ mounted /\ lastEvent.op = "healthDone" /\ lastEvent.origin = "throw"
  /\ ~isModelLoaded /\ error = CannotConnectMsg /\ detections # <<>>

\* C23: after a transport error of a detection call, unless the App is torn
\* down first, the health interval starts a probe, and the completion of a
\* probe then sets the ready flag to its outcome.
C23_ProbeAfterTransportError ==
  /\ (mounted /\ lastEvent.op = "throw")
       ~> (~mounted \/ lastEvent.op = "healthTick")
  /\ (mounted /\ lastEvent.op = "healthTick")
       ~> (~mounted \/ (/\ lastEvent.op = "healthDone"
                        /\ isModelLoaded = (lastEvent.origin = "loaded")))

\* the interval starts a probe while a transport error is displayed
C23_Witness ==
  /\ mounted /\ lastEvent.op = "healthTick"
  /\ errorKind = "transport" /\ error = "Network Error" /\ healthInflight >= 1

\* C24: the color of the detection at index i (from 0) is entry i mod 6 of
\* the palette, whatever its class: detections of one class at different
\* indices below 6 differ in color, and indices i and i+6 agree.
C24_ColorByPosition ==
  Drawn
    => /\ Len(COLORS) = 6
       /\ \A i \in DOMAIN canvas.detections :
            canvas.out.colors[i] = COLORS[((i - 1) % 6) + 1]
       /\ \A i, j \in DOMAIN canvas.detections :
            /\ (i # j /\ i <= 6 /\ j <= 6 /\ canvas.classes[i] = canvas.classes[j])
                 => canvas.out.colors[i] # canvas.out.colors[j]
            /\ j = i + 6 => canvas.out.colors[i] = canvas.out.colors[j]

\* seven detections of one class: the seventh has the color of the first
C24_Witness ==
  /\ Drawn /\ Len(canvas.detections) = 7
  /\ \A i \in 1..7 : canvas.classes[i] = "student"
  /\ canvas.out.colors[7] = "#8B5CF6" /\ canvas.out.colors[2] = "#10B981"

BoxWidth(i) == RSub(canvas.out.boxes[i].x2, canvas.out.boxes[i].x1)

BoxHeight(i) == RSub(canvas.out.boxes[i].y2, canvas.out.boxes[i].y1)

PositiveBox(i) == RLt(Num(0), BoxWidth(i)) /\ RLt(Num(0), BoxHeight(i))

\* C25: the accent length of a drawn box is min(25, width/4, height/4); for
\* a box of positive width and height it is at most a quarter of either side
\* and the accents of two adjacent corners do not meet.
C25_CornerAccents ==
  Drawn
    => \A i \in DOMAIN canvas.detections :
         PositiveBox(i)
           => LET len == canvas.out.corners[i]
                  quarterW == RDiv(BoxWidth(i), Num(4))
                  quarterH == RDiv(BoxHeight(i), Num(4))
              IN /\ RLe(len, Num(25)) /\ RLe(len, quarterW) /\ RLe(len, quarterH)
                 /\ len \in {Num(25), quarterW, quarterH}
                 /\ RLt(RMul(Num(2), len), BoxWidth(i))
                 /\ RLt(RMul(Num(2), len), BoxHeight(i))

\* a 60 x 45 box was drawn with accents of a quarter of its height
C25_Witness ==
  /\ Drawn
  /\ \E i \in DOMAIN canvas.detections :
       /\ PositiveBox(i)
       /\ BoxWidth(i) = Num(60) /\ BoxHeight(i) = Num(45)
       /\ canvas.out.corners[i] = <<45, 4>>

\* C26: the top of every label pill is at y >= 0: a label that would start
\* above the drawing surface is placed below the box's top-left corner.
C26_LabelVisible ==
  (Drawn /\ PositiveSource)
    => \A i \in DOMAIN canvas.detections : RLe(Num(0), canvas.out.labelTops[i])

\* !isLoading && imageSrc && detections.length > 0
OverlayShown == mounted /\ ~isLoading /\ imageSrc # NoImage /\ Len(detections) > 0

\* C27: whenever the overlay is shown, the image source is the frame of the
\* capture whose response stored the detections.
C27_OverlayFromOneCapture == OverlayShown => resultFrom = imageSrc

\* C28: switchMode sets the mode, clears image source, detections and error
\* and turns auto-capture off; it leaves the loading flag, inference time,
\* image width, image height and ready flag unchanged, and while a request
\* is in flight no capture is accepted, in the new mode either.
C28_SwitchModeFrame ==
  [][/\ lastEvent'.op = "switchMode"
          => /\ mode' = lastEvent'.origin
             /\ imageSrc' = NoImage /\ detections' = <<>> /\ error' = Null
             /\ ~isAutoCapture'
             /\ UNCHANGED <<isLoading, inferenceTime, imageWidth, imageHeight,
                            isModelLoaded>>
     /\ lastEvent'.op = "accept" => (~isLoading /\ inflight = {})
     /\ (mounted /\ inflight # {}) => (isLoading /\ ~CaptureEnabled /\ ~DetectEnabled
                                      /\ autoTimer = 0)]_vars

\* the mode was switched while the second request was in flight
C28_Witness ==
  /\ mounted /\ lastEvent.op = "switchMode" /\ mode = "upload"
  /\ isLoading /\ inflight # {} /\ inferenceTime = 12 /\ imageWidth = 640

\* C29: while the error of a failed detection is current, only a dismissal,
\* an accepted capture or a mode switch changes the error; a completed
\* health probe leaves it as it is.
C29_DetectionErrorKept ==
  [][(mounted /\ errorKind \in {"inference", "transport"}
        /\ lastEvent'.op \notin {"dismiss", "accept", "switchMode"})
       => error' = error]_vars

\* C30: when no fetch is outstanding and data without an error is shown, the
\* stats, the class distribution and the daily breakdown are those of the
\* selected period.
C30_DataOfSelectedPeriod ==
  (dash.on /\ dash.fetches = {} /\ dash.error = Null /\ dash.stats # NoData)
    => /\ dash.stats.period = dash.period
       /\ dash.distribution.period = dash.period
       /\ dash.dailyBreakdown.period = RemappedPeriod(dash.period)

\* the four pieces of fetched data
DashData == <<dash.stats, dash.dailyBreakdown, dash.distribution, dash.todayStats>>

\* C31: when a fetch completes with one of its requests failed, the fetched
\* data are unchanged and the error is the fetch-failure message; when all
\* four succeeded, the four pieces of data are those of that fetch and the
\* error is empty.
C31_FetchAllOrNothing ==
  [][dash'.on /\ dash'.last.op = "done"
       => IF dash'.last.failed # {}
            THEN DashData' = DashData /\ dash'.error = FetchFailedMsg
            ELSE /\ \A i \in 1..4 : /\ DashData'[i] # NoData
                                    /\ DashData'[i].fetch = dash'.last.id
                 /\ dash'.error = Null]_vars

\* C36: the dashboard's loading flag is true exactly while a fetch is
\* outstanding.
C36_LoadingWhileFetching == dash.on => (dash.loading <=> dash.fetches # {})

\* C32: a health probe, started or completed, changes none of mode, image
\* source, detections, inference time, image dimensions, loading flag and
\* auto-capture setting.
C32_ProbeFrame ==
  [][lastEvent'.op \in {"healthTick", "healthDone"}
       => UNCHANGED <<mode, imageSrc, detections, inferenceTime, imageWidth,
                      imageHeight, isLoading, isAutoCapture>>]_vars

\* a probe failed while a request was in flight over a displayed result
C32_Witness ==
  /\ mounted /\ lastEvent.op = "healthDone" /\ lastEvent.origin = "throw"
  /\ mode = "webcam" /\ isAutoCapture /\ isLoading
  /\ detections # <<>> /\ imageSrc = 2

\* C33: a tick of the auto-capture interval happens only with auto-capture
\* enabled, permission granted and nothing loading; the interval is armed
\* only with a full interval ahead and nothing in flight, and a completion
\* leaves it unarmed or a full interval away.
C33_AutoCaptureSpacing ==
  [][/\ lastEvent'.origin = "auto"
          /\ lastEvent'.op \in {"accept", "noFrame"}
          => (mode = "webcam" /\ isAutoCapture /\ hasPermission = "true"
              /\ ~isLoading /\ inflight = {})
     /\ (autoTimer = 0 /\ autoTimer' # 0)
          => (autoTimer' = Interval /\ inflight' = {} /\ ~isLoading')
     /\ (mounted /\ IsResponse(lastEvent') /\ isAutoCapture
           /\ mode = "webcam" /\ hasPermission = "true")
          => autoTimer' = Interval]_vars

\* the completion of a timer-initiated capture re-armed the interval
C33_Witness ==
  /\ mounted /\ IsResponse(lastEvent) /\ lastEvent.origin = "auto"
  /\ isAutoCapture /\ autoTimer = Interval /\ inflight = {}

\* C35: a file preview that loads right after a mode switch, before any
\* capture is accepted, leaves the image source empty.
C35_NoPreviewAfterSwitch ==
  [][(mounted /\ lastEvent.op = "switchMode" /\ lastEvent'.op = "readerLoad")
       => imageSrc' = NoImage]_vars

\* C37: a capture attempt that obtains no frame sends no detection request
\* and leaves loading flag, error, image source and stored result unchanged.
C37_NoFrameNoRequest ==
  [][(lastEvent'.op \in {"accept", "noFrame"}
        /\ lastEvent'.origin \in {"manual", "auto"}
        /\ lastEvent'.message # "frame")
       => /\ sent' = sent /\ accepted' = accepted /\ inflight' = inflight
          /\ UNCHANGED <<isLoading, error, imageSrc, detections, inferenceTime,
                         imageWidth, imageHeight>>]_vars

\* a manual capture attempt got no frame while an earlier result is shown
C37_Witness ==
  /\ mounted /\ lastEvent.op = "noFrame" /\ lastEvent.origin = "manual"
  /\ detections # <<>> /\ imageSrc = 1 /\ ~isLoading /\ sent = 1

\* C38: for class counts with total > 0 the Top Class % lies between 33 and
\* 100 inclusive.
C38_TopClassRange ==
  (Rendered /\ agg.todayStats # NoData /\ TodayTotal > 0)
    => (33 <= agg.out.topClass /\ agg.out.topClass <= 100)

\* three equal counts give 33, and a single class gives 100
C38_Witness ==
  /\ Rendered /\ agg.todayStats = Counts(2, 2, 2) /\ agg.out.topClass = 33
  /\ TopClass(Counts(0, 5, 0)) = 100

\* C34: once no image load is pending, the canvas shows the drawing of the
\* latest render's inputs.
C34_LatestInputsDrawn ==
  (Drawn /\ canvas.loads = {})
    => /\ canvas.shown = canvas.renders
       /\ canvas.out = Draw(canvas, Num(canvas.containerWidth))

====
